---- MODULE Spec2Model ----
(***************************************************************************)
(* The unconfirmed-transaction address index of libbitcoin                 *)
(* (transaction_indexer) and the history fetch that merges it with the     *)
(* confirmed ledger (fetch_history).                                       *)
(*                                                                         *)
(* The index owns two multimaps, address -> spend and address -> output.   *)
(* index, deindex and query only queue a bound handler on the strand; the  *)
(* handlers do_index, do_deindex and do_query run later, one loop          *)
(* iteration per step, on a pool thread.                                   *)
(***************************************************************************)
EXTENDS Integers, Sequences, FiniteSets, TLC

\* ------------------------------------------------------------------ bounds

\* Calls the callers make in one run (index, deindex, query, fetch_history).
MaxCalls == 3

\* ------------------------------------------------------- program constants

\* std::numeric_limits<uint32_t>::max().  TLC's integers are 32 bits signed,
\* so the sentinel is the greatest integer of the model; every real height
\* and index of the model is far below it.
max_height == 2147483647

\* The index of the null input point {null_hash, max_index}.
max_index == 2147483647

null_hash == "null_hash"

\* The status a handler receives: a default-constructed std::error_code.
success == "success"

\* ------------------------------------------------------------- data types

Addresses == {"A", "B"}

\* A script is a standard payment to an address, or anything else.
PayTo(a) == [kind |-> "pay", addr |-> a]

NonStandard == [kind |-> "other", addr |-> "-"]

\* extract(payaddr, script): whether the script resolves to an address, and
\* the address.
extract(script) ==
    [ok |-> script.kind = "pay", payaddr |-> script.addr]

Point(h, i) == [hash |-> h, index |-> i]

null_point == Point(null_hash, max_index)

\* The transactions of the model.  Tx0 is in the ledger from the start; Tx1
\* spends its output and pays A twice, with an output in between that
\* resolves to no address; Tx2 spends an output of Tx1 and has an input
\* that resolves to no address; Tx3 touches no address at all.
Tx0 ==
    [inputs  |-> << [script |-> NonStandard, previous_output |-> Point("H9", 0)] >>,
     outputs |-> << [script |-> PayTo("A"), value |-> 500] >>]

Tx1 ==
    [inputs  |-> << [script |-> PayTo("A"), previous_output |-> Point("H0", 0)] >>,
     outputs |-> << [script |-> PayTo("A"), value |-> 5],
                    [script |-> NonStandard, value |-> 1],
                    [script |-> PayTo("A"), value |-> 7] >>]

Tx2 ==
    [inputs  |-> << [script |-> NonStandard, previous_output |-> Point("H9", 1)],
                    [script |-> PayTo("A"), previous_output |-> Point("H1", 0)] >>,
     outputs |-> << [script |-> PayTo("B"), value |-> 250] >>]

Tx3 ==
    [inputs  |-> << [script |-> NonStandard, previous_output |-> Point("H9", 2)] >>,
     outputs |-> << [script |-> NonStandard, value |-> 2] >>]

\* The transactions callers submit to the index.
PoolTxs == {Tx1, Tx2, Tx3}

\* hash_transaction(tx): distinct transactions have distinct hashes.
hash_transaction(tx) ==
    CASE tx = Tx0 -> "H0"
      [] tx = Tx1 -> "H1"
      [] tx = Tx2 -> "H2"
      [] tx = Tx3 -> "H3"

\* ------------------------------------------------------------------ state

VARIABLES
    asserts,       \* the build: TRUE unless BITCOIN_DISABLE_ASSERTS is defined
    front,         \* the library: emplace puts an equal key first (else last)
    alive,         \* FALSE once the process has been terminated
    spends_map_,   \* addr -> spend, a bucket per address
    outputs_map_,  \* addr -> output, a bucket per address
    calls,         \* the calls made so far, in order
    handled,       \* per call, the invocations of its completion handler
    tasks,         \* the handlers queued on the strand, in queueing order
    pending,       \* ledger fetches whose callback has not run yet
    chain,         \* the transactions in the confirmed ledger
    last,          \* the last do_index / do_deindex dispatched, and the maps before it
    stable,        \* per fetch_history call, the outputs known ever since it started
    probe          \* a direct call of one of fetch_history's two callbacks

vars == << asserts, front, alive, spends_map_, outputs_map_, calls, handled,
           tasks, pending, chain, last, stable, probe >>

\* ---------------------------------------------------------- the multimaps

EmptyMap == [a \in Addresses |-> << >>]

\* map.end()
map_end == 0

Min(S) == CHOOSE x \in S : \A y \in S : x <= y

\* get_info_list walking the whole map instead of the address's equal_range.
get_info_list_whole_map(payaddr, map) ==
    map["A"] \o map["B"]

\* get_info_list(payaddr, map): the entries of the address's equal_range, in
\* the order the container holds them.
get_info_list(payaddr, map) ==
    [k \in 1..Len(map[payaddr]) |-> map[payaddr][k]]

\* find_entry matching the first entry of the key's equal_range, whatever
\* its point.
find_entry_first(key, value_point, map) ==
    IF Len(map[key]) = 0 THEN map_end ELSE 1

\* find_entry(key, value_point, map): the first entry of the key's
\* equal_range whose point equals value_point, or map.end().
find_entry(key, value_point, map) ==
    LET hits == {k \in 1..Len(map[key]) : map[key][k].point = value_point}
    IN  IF hits = {} THEN map_end ELSE Min(hits)

\* index_does_not_exist(key, value_point, map)
index_does_not_exist(key, value_point, map) ==
    find_entry(key, value_point, map) = map_end

\* map.emplace(key, entry): the entry joins the key's equal_range, first or
\* last in it as the library decides.
emplace(map, key, entry, atFront) ==
    [map EXCEPT ![key] = IF atFront THEN << entry >> \o @ ELSE Append(@, entry)]

\* erase removing every entry stored under the key (multimap::erase by key).
erase_equal_range(map, key, it) ==
    [map EXCEPT ![key] = << >>]

\* map.erase(it), it a valid iterator: that one entry goes.
erase(map, key, it) ==
    [map EXCEPT ![key] = SubSeq(@, 1, it - 1) \o SubSeq(@, it + 1, Len(@))]

\* spend_info_type{point, previous_output}
spend_info_type(point, previous_output) ==
    [point |-> point, previous_output |-> previous_output]

\* output_info_type{point, value}
output_info_type(point, value) ==
    [point |-> point, value |-> value]

\* ------------------------------------------------- the handlers' loop bodies

\* What one loop iteration leaves behind: the process aborted (a failed
\* assertion, or a crash), or the two maps.
Outcome(aborted, spends, outputs) ==
    [aborted |-> aborted, spends |-> spends, outputs |-> outputs]

\* What erasing map.end() can do where the assertion before it is compiled
\* out: undefined behaviour, which crashes the process or returns having
\* removed nothing.
EraseEndOutcomes == {"crash", "nothing"}

\* One iteration of do_index's loop over tx.inputs (i counts from 0).
do_index_input(tx, i, spends, outputs, assertsOn, atFront) ==
    LET input == tx.inputs[i + 1]
        e     == extract(input.script)
        point == Point(hash_transaction(tx), i)
    IN  IF ~e.ok
        THEN {Outcome(FALSE, spends, outputs)}
        ELSE IF assertsOn /\ ~index_does_not_exist(e.payaddr, point, spends)
        THEN {Outcome(TRUE, spends, outputs)}
        ELSE {Outcome(FALSE,
                      emplace(spends, e.payaddr,
                              spend_info_type(point, input.previous_output),
                              atFront),
                      outputs)}

\* do_index's output iteration counting only the outputs that have an
\* address: a skipped output shifts the positions after it.
do_index_output_shifted(tx, i, spends, outputs, assertsOn, atFront) ==
    LET output == tx.outputs[i + 1]
        e      == extract(output.script)
        point  == Point(hash_transaction(tx),
                        Cardinality({j \in 1..i : extract(tx.outputs[j].script).ok}))
    IN  IF ~e.ok
        THEN {Outcome(FALSE, spends, outputs)}
        ELSE IF assertsOn /\ ~index_does_not_exist(e.payaddr, point, outputs)
        THEN {Outcome(TRUE, spends, outputs)}
        ELSE {Outcome(FALSE, spends,
                      emplace(outputs, e.payaddr,
                              output_info_type(point, output.value),
                              atFront))}

\* One iteration of do_index's loop over tx.outputs.
do_index_output(tx, i, spends, outputs, assertsOn, atFront) ==
    LET output == tx.outputs[i + 1]
        e      == extract(output.script)
        point  == Point(hash_transaction(tx), i)
    IN  IF ~e.ok
        THEN {Outcome(FALSE, spends, outputs)}
        ELSE IF assertsOn /\ ~index_does_not_exist(e.payaddr, point, outputs)
        THEN {Outcome(TRUE, spends, outputs)}
        ELSE {Outcome(FALSE, spends,
                      emplace(outputs, e.payaddr,
                              output_info_type(point, output.value),
                              atFront))}

\* find_entry, erase and the assertion after it, on one map: the maps that
\* can result, or "aborted".
erase_point(map, key, point, assertsOn) ==
    LET it == find_entry(key, point, map)
    IN  IF it = map_end
        THEN IF assertsOn
             THEN {[aborted |-> TRUE, map |-> map]}
             ELSE {[aborted |-> o = "crash", map |-> map] : o \in EraseEndOutcomes}
        ELSE LET erased == erase(map, key, it)
             IN  {[aborted |-> assertsOn /\ ~index_does_not_exist(key, point, erased),
                   map |-> erased]}

\* One iteration of do_deindex's loop over tx.inputs.
do_deindex_input(tx, i, spends, outputs, assertsOn) ==
    LET input == tx.inputs[i + 1]
        e     == extract(input.script)
        point == Point(hash_transaction(tx), i)
    IN  IF ~e.ok
        THEN {Outcome(FALSE, spends, outputs)}
        ELSE {Outcome(r.aborted, r.map, outputs) :
                  r \in erase_point(spends, e.payaddr, point, assertsOn)}

\* One iteration of do_deindex's loop over tx.outputs.
do_deindex_output(tx, i, spends, outputs, assertsOn) ==
    LET output == tx.outputs[i + 1]
        e      == extract(output.script)
        point  == Point(hash_transaction(tx), i)
    IN  IF ~e.ok
        THEN {Outcome(FALSE, spends, outputs)}
        ELSE {Outcome(r.aborted, spends, r.map) :
                  r \in erase_point(outputs, e.payaddr, point, assertsOn)}

\* Where a handler's two loops stand, from iteration i of a loop on: at the
\* next iteration whose script resolves to an address, or past both loops
\* ("done").  An iteration that only continues touches nothing and is passed
\* over with the step before it.
LoopAt(tx, phase, i) ==
    LET ins  == IF phase = "inputs"
                THEN {k \in i..(Len(tx.inputs) - 1) :
                          extract(tx.inputs[k + 1].script).ok}
                ELSE {}
        from == IF phase = "inputs" THEN 0 ELSE i
        outs == {k \in from..(Len(tx.outputs) - 1) :
                     extract(tx.outputs[k + 1].script).ok}
    IN  IF ins # {} THEN [phase |-> "inputs", i |-> Min(ins)]
        ELSE IF outs # {} THEN [phase |-> "outputs", i |-> Min(outs)]
        ELSE [phase |-> "done", i |-> 0]

\* ----------------------------------------------------- the history merge

\* blockchain::history_row{output, output_height, value, spend, spend_height}
history_row(output, output_height, value, spend, spend_height) ==
    [output |-> output, output_height |-> output_height, value |-> value,
     spend |-> spend, spend_height |-> spend_height]

\* What a handler is called with: the status, then its other arguments in
\* the order the call passes them (<< >> where the handler has none).
Invocation(ec, a2, a3) == [ec |-> ec, arg2 |-> a2, arg3 |-> a3]

RECURSIVE add_outputs_spent_height(_, _, _, _)
\* add_outputs giving the new row the height 0 for its spend as well.
add_outputs_spent_height(history, outputs, k, assertsOn) ==
    IF k > Len(outputs)
    THEN [aborted |-> FALSE, history |-> history]
    ELSE IF assertsOn /\ \E r \in 1..Len(history) :
                             history[r].output = outputs[k].point
    THEN [aborted |-> TRUE, history |-> history]
    ELSE add_outputs_spent_height(
             Append(history, history_row(outputs[k].point, 0, outputs[k].value,
                                         null_point, 0)),
             outputs, k + 1, assertsOn)

RECURSIVE add_outputs(_, _, _, _)
\* "Just add in outputs": the loop over outputs from its k-th element on.
\* With assertions compiled in, an output that is already a row of the
\* history aborts the process.
add_outputs(history, outputs, k, assertsOn) ==
    IF k > Len(outputs)
    THEN [aborted |-> FALSE, history |-> history]
    ELSE IF assertsOn /\ \E r \in 1..Len(history) :
                             history[r].output = outputs[k].point
    THEN [aborted |-> TRUE, history |-> history]
    ELSE add_outputs(Append(history,
                            history_row(outputs[k].point, 0, outputs[k].value,
                                        null_point, max_height)),
                     outputs, k + 1, assertsOn)

RECURSIVE mark_spends_unconfirms(_, _, _, _)
\* mark_spends writing the height 0 to the row's output_height as well.
mark_spends_unconfirms(history, spends, k, assertsOn) ==
    IF k > Len(spends)
    THEN [aborted |-> FALSE, history |-> history]
    ELSE LET rows == {r \in 1..Len(history) :
                          history[r].output = spends[k].previous_output}
         IN  IF rows = {}
             THEN IF assertsOn
                  THEN [aborted |-> TRUE, history |-> history]
                  ELSE mark_spends_unconfirms(history, spends, k + 1, assertsOn)
             ELSE LET r == Min(rows)
                  IN  IF assertsOn /\ (history[r].spend_height # max_height
                                       \/ history[r].spend # null_point)
                      THEN [aborted |-> TRUE, history |-> history]
                      ELSE mark_spends_unconfirms(
                               [history EXCEPT ![r].spend = spends[k].point,
                                               ![r].spend_height = 0,
                                               ![r].output_height = 0],
                               spends, k + 1, assertsOn)

RECURSIVE mark_spends(_, _, _, _)
\* "Now mark spends": the loop over spends from its k-th element on.  The
\* first row whose output is the spend's previous_output takes the spend;
\* the three assertions abort the process where they are compiled in.
mark_spends(history, spends, k, assertsOn) ==
    IF k > Len(spends)
    THEN [aborted |-> FALSE, history |-> history]
    ELSE LET rows == {r \in 1..Len(history) :
                          history[r].output = spends[k].previous_output}
         IN  IF rows = {}
             THEN IF assertsOn
                  THEN [aborted |-> TRUE, history |-> history]
                  ELSE mark_spends(history, spends, k + 1, assertsOn)
             ELSE LET r == Min(rows)
                  IN  IF assertsOn /\ (history[r].spend_height # max_height
                                       \/ history[r].spend # null_point)
                      THEN [aborted |-> TRUE, history |-> history]
                      ELSE mark_spends(
                               [history EXCEPT ![r].spend = spends[k].point,
                                               ![r].spend_height = 0],
                               spends, k + 1, assertsOn)

\* indexer_history_fetched(ec, outputs, spends, history, handle_fetch): the
\* process aborts, or handle_fetch is called once.
indexer_history_fetched(ec, outputs, spends, history, assertsOn) ==
    IF ec # success
    THEN [aborted |-> FALSE, fetched |-> << Invocation(ec, << >>, << >>) >>]
    ELSE LET added == add_outputs(history, outputs, 1, assertsOn)
             marked == mark_spends(added.history, spends, 1, assertsOn)
         IN  IF added.aborted \/ marked.aborted
             THEN [aborted |-> TRUE, fetched |-> << >>]
             ELSE [aborted |-> FALSE,
                   fetched |-> << Invocation(success, marked.history, << >>) >>]

\* blockchain_history_fetched passing the ledger's history on with the error.
blockchain_history_fetched_keeps_history(ec, history, address) ==
    IF ec # success
    THEN [fetched |-> << Invocation(ec, history, << >>) >>, queries |-> << >>]
    ELSE [fetched |-> << >>,
          queries |-> << [payaddr |-> address, history |-> history] >>]

\* blockchain_history_fetched(ec, history, indexer, address, handle_fetch):
\* handle_fetch is called with the error, or the index is queried with
\* indexer_history_fetched bound to the history.
blockchain_history_fetched(ec, history, address) ==
    IF ec # success
    THEN [fetched |-> << Invocation(ec, << >>, << >>) >>, queries |-> << >>]
    ELSE [fetched |-> << >>,
          queries |-> << [payaddr |-> address, history |-> history] >>]

\* do_query's call of its handler: the status, then the outputs bucket, then
\* the spends bucket.
do_query(payaddr, spends, outputs) ==
    Invocation(success, get_info_list(payaddr, outputs),
               get_info_list(payaddr, spends))

\* ------------------------------------------------------------ the ledger

\* The block a transaction is confirmed in.
Height(tx) ==
    CASE tx = Tx0 -> 100
      [] tx = Tx1 -> 101
      [] tx = Tx2 -> 102

OutputRefs(tx) == [k \in 1..Len(tx.outputs) |-> [tx |-> tx, k |-> k]]

\* Every output a ledger transaction can have, in ledger order.
LedgerOutputs == OutputRefs(Tx0) \o OutputRefs(Tx1) \o OutputRefs(Tx2)

\* The input of a confirmed transaction that spends the point, if any.
Spenders(point, confirmed) ==
    {s \in UNION {{[tx |-> t, k |-> k] : k \in 1..Len(t.inputs)} : t \in confirmed} :
        s.tx.inputs[s.k].previous_output = point}

\* chain.fetch_history(address): a row per confirmed output paying the
\* address, with the confirmed spend of it if there is one.
ChainHistory(address, confirmed) ==
    LET paying(r) == /\ r.tx \in confirmed
                     /\ extract(r.tx.outputs[r.k].script).ok
                     /\ extract(r.tx.outputs[r.k].script).payaddr = address
        refs == SelectSeq(LedgerOutputs, paying)
        row(r) ==
            LET point == Point(hash_transaction(r.tx), r.k - 1)
                ss == Spenders(point, confirmed)
            IN  IF ss = {}
                THEN history_row(point, Height(r.tx), r.tx.outputs[r.k].value,
                                 null_point, max_height)
                ELSE LET s == CHOOSE x \in ss : TRUE
                     IN  history_row(point, Height(r.tx),
                                     r.tx.outputs[r.k].value,
                                     Point(hash_transaction(s.tx), s.k - 1),
                                     Height(s.tx))
    IN  [k \in 1..Len(refs) |-> row(refs[k])]

\* A transaction can be confirmed once the transactions it spends are.
Confirmable(tx, confirmed) ==
    /\ tx \in {Tx1} \ confirmed
    /\ \A k \in 1..Len(tx.inputs) :
           \A t \in {Tx0, Tx1, Tx2} :
               tx.inputs[k].previous_output.hash = hash_transaction(t)
                   => t \in confirmed


\* ------------------------------------------------------------ the strand

NoTx == [inputs |-> << >>, outputs |-> << >>]

\* A handler bound to its arguments, as strand_.queue receives it: do_index
\* and do_deindex with the transaction, do_query with the address and the
\* handler to call (the caller's own, or indexer_history_fetched bound to
\* the ledger's history).  call is the call it works for.
Task(kind, tx, payaddr, call, handler, history) ==
    [kind |-> kind, tx |-> tx, payaddr |-> payaddr, call |-> call,
     handler |-> handler, history |-> history,
     status |-> "queued", phase |-> "-", i |-> 0]

Queued == {t \in 1..Len(tasks) : tasks[t].status = "queued"}

Running == {t \in 1..Len(tasks) : tasks[t].status = "running"}

\* A strand that starts any queued handler, not the oldest.
strand_next_unordered(queued, running) ==
    IF running # {} THEN {} ELSE queued

\* The handlers a pool thread may start now: the oldest one queued, and only
\* while no handler of the strand is running.
strand_next(queued, running) ==
    IF queued = {} \/ running # {} THEN {} ELSE {Min(queued)}

\* ------------------------------------------------------ history variables

Maps(spends, outputs) == [spends |-> spends, outputs |-> outputs]

\* Whether an entry of tx is in the maps.
IsIndexed(tx, spends, outputs) ==
    \E a \in Addresses :
        \/ \E k \in 1..Len(spends[a]) :
               spends[a][k].point.hash = hash_transaction(tx)
        \/ \E k \in 1..Len(outputs[a]) :
               outputs[a][k].point.hash = hash_transaction(tx)

NoLast ==
    [task |-> 0, kind |-> "-", tx |-> NoTx, indexed |-> FALSE,
     pre |-> Maps(EmptyMap, EmptyMap),
     round_trip |-> FALSE, base |-> Maps(EmptyMap, EmptyMap)]

\* The record of do_index / do_deindex task t as it starts.  A do_deindex
\* that starts right after the do_index of the same transaction, which was
\* not indexed before, closes a round trip from the maps before that
\* do_index.
LastOf(t) ==
    LET task == tasks[t]
        closes == /\ task.kind = "do_deindex"
                  /\ last.kind = "do_index"
                  /\ last.tx = task.tx
                  /\ ~last.indexed
                  /\ tasks[last.task].status = "done"
    IN  [task |-> t, kind |-> task.kind, tx |-> task.tx,
         indexed |-> IsIndexed(task.tx, spends_map_, outputs_map_),
         pre |-> Maps(spends_map_, outputs_map_),
         round_trip |-> closes,
         base |-> IF closes THEN last.pre ELSE Maps(EmptyMap, EmptyMap)]

\* The outputs paying an address that are known: in the ledger, or in the
\* index.
KnownOutputs(address, confirmed, outputs) ==
    {r.output : r \in {ChainHistory(address, confirmed)[k] :
                           k \in 1..Len(ChainHistory(address, confirmed))}}
    \cup {outputs[address][k].point : k \in 1..Len(outputs[address])}

\* stable, after the maps or the ledger changed: a call whose handler has
\* not been called yet keeps the outputs that are still known.
StillKnown(confirmed, outputs) ==
    [c \in 1..Len(calls) |->
        IF calls[c].op = "fetch_history" /\ handled[c] = << >>
        THEN stable[c] \cap KnownOutputs(calls[c].payaddr, confirmed, outputs)
        ELSE stable[c]]


\* ------------------------------------------------------------------- Init

\* The errors the ledger can report.
ErrorCodes == {"service_stopped", "not_found"}

\* The error the ledger reports when it fails.
LedgerError == "service_stopped"

\* No callback has been called directly.
NoProbe ==
    [ec |-> success, address |-> "-", history |-> << >>, outputs |-> << >>,
     spends |-> << >>, applied |-> "-", aborted |-> FALSE,
     fetched |-> << >>, queries |-> << >>]

\* The process after transaction_indexer's constructor, in either build and
\* with either library.
Constructed ==
    /\ asserts \in BOOLEAN
    /\ front \in BOOLEAN
    /\ alive = TRUE
    /\ spends_map_ = EmptyMap
    /\ outputs_map_ = EmptyMap
    /\ calls = << >>
    /\ handled = << >>
    /\ tasks = << >>
    /\ pending = {}
    /\ chain = {Tx0}
    /\ last = NoLast
    /\ stable = << >>

Init ==
    /\ Constructed
    /\ probe = NoProbe

\* --------------------------------------------------------------- the calls

\* A caller's call is recorded, with no invocation of its handler yet.
Called(op, tx, payaddr, known) ==
    /\ alive
    /\ Len(calls) < MaxCalls
    /\ calls' = Append(calls, [op |-> op, tx |-> tx, payaddr |-> payaddr])
    /\ handled' = Append(handled, << >>)
    /\ stable' = Append(stable, known)

\* transaction_indexer::index(tx, handle_index)
index(tx) ==
    /\ Called("index", tx, "-", {})
    /\ tasks' = Append(tasks, Task("do_index", tx, "-", Len(calls) + 1,
                                   "completion_handler", << >>))
    /\ UNCHANGED << asserts, front, alive, spends_map_, outputs_map_,
                    pending, chain, last, probe >>

\* transaction_indexer::deindex(tx, handle_deindex)
deindex(tx) ==
    /\ Called("deindex", tx, "-", {})
    /\ tasks' = Append(tasks, Task("do_deindex", tx, "-", Len(calls) + 1,
                                   "completion_handler", << >>))
    /\ UNCHANGED << asserts, front, alive, spends_map_, outputs_map_,
                    pending, chain, last, probe >>

\* query running do_query on the caller's thread instead of queueing it.
query_direct(payaddr) ==
    /\ alive
    /\ Len(calls) < MaxCalls
    /\ calls' = Append(calls, [op |-> "query", tx |-> NoTx, payaddr |-> payaddr])
    /\ handled' = Append(handled,
                         << do_query(payaddr, spends_map_, outputs_map_) >>)
    /\ stable' = Append(stable, {})
    /\ tasks' = Append(tasks,
                       [Task("do_query", NoTx, payaddr, Len(calls) + 1,
                             "query_handler", << >>) EXCEPT !.status = "done"])
    /\ UNCHANGED << asserts, front, alive, spends_map_, outputs_map_,
                    pending, chain, last, probe >>

\* transaction_indexer::query(payaddr, handle_query)
query(payaddr) ==
    /\ Called("query", NoTx, payaddr, {})
    /\ tasks' = Append(tasks, Task("do_query", NoTx, payaddr, Len(calls) + 1,
                                   "query_handler", << >>))
    /\ UNCHANGED << asserts, front, alive, spends_map_, outputs_map_,
                    pending, chain, last, probe >>

\* fetch_history(chain, indexer, address, handle_fetch, from_height): the
\* ledger reads the address's history; its callback runs later.
fetch_history(address) ==
    /\ Called("fetch_history", NoTx, address,
              KnownOutputs(address, chain, outputs_map_))
    /\ pending' = pending \cup
           {[call |-> Len(calls) + 1, address |-> address,
             history |-> ChainHistory(address, chain)]}
    /\ UNCHANGED << asserts, front, alive, spends_map_, outputs_map_,
                    tasks, chain, last, probe >>

\* The ledger's callback, with the history it read or with an error:
\* blockchain_history_fetched runs.
BlockchainHistoryFetched(p, ec) ==
    LET r == blockchain_history_fetched(
                 ec, IF ec = success THEN p.history ELSE << >>, p.address)
    IN  /\ alive
        /\ p \in pending
        /\ pending' = pending \ {p}
        /\ handled' = [handled EXCEPT ![p.call] = @ \o r.fetched]
        /\ tasks' = tasks \o
               [k \in 1..Len(r.queries) |->
                   Task("do_query", NoTx, r.queries[k].payaddr, p.call,
                        "indexer_history_fetched", r.queries[k].history)]
        /\ UNCHANGED << asserts, front, alive, spends_map_, outputs_map_,
                        calls, chain, last, stable, probe >>

\* A block confirms a transaction: it joins the ledger.
Confirm(tx) ==
    /\ alive
    /\ Confirmable(tx, chain)
    /\ chain' = chain \cup {tx}
    /\ UNCHANGED << asserts, front, alive, spends_map_, outputs_map_, calls,
                    handled, tasks, pending, last, stable, probe >>

\* ------------------------------------------------------ the strand's work

\* A pool thread can run task t: it is inside the handler, or the strand
\* hands it the handler now.
Runnable(t) == t \in Running \/ t \in strand_next(Queued, Running)

\* Where the handler of task t stands when it runs next.
Entered(t) ==
    IF tasks[t].status = "queued"
    THEN LoopAt(tasks[t].tx, "inputs", 0)
    ELSE [phase |-> tasks[t].phase, i |-> tasks[t].i]

\* What an iteration's outcome o does to the process and to task t, which
\* stood at `at`.  A handler past both loops returns.
Iterated(t, at, o) ==
    IF o.aborted
    THEN /\ alive' = FALSE
         /\ tasks' = [tasks EXCEPT ![t].status = "aborted",
                                   ![t].phase = at.phase, ![t].i = at.i]
         /\ UNCHANGED << spends_map_, outputs_map_ >>
    ELSE LET next == IF at.phase = "done" THEN at
                     ELSE LoopAt(tasks[t].tx, at.phase, at.i + 1)
         IN  /\ alive' = alive
             /\ spends_map_' = o.spends
             /\ outputs_map_' = o.outputs
             /\ tasks' = [tasks EXCEPT
                    ![t].status = IF next.phase = "done" THEN "done" ELSE "running",
                    ![t].phase = next.phase,
                    ![t].i = next.i]

\* transaction_indexer::do_index, one loop iteration a step.
DoIndex(t) ==
    LET task == tasks[t]
        at   == Entered(t)
    IN  /\ alive
        /\ task.kind = "do_index"
        /\ Runnable(t)
        /\ \E o \in IF at.phase = "inputs"
                    THEN do_index_input(task.tx, at.i, spends_map_,
                                        outputs_map_, asserts, front)
                    ELSE IF at.phase = "outputs"
                    THEN do_index_output(task.tx, at.i, spends_map_,
                                         outputs_map_, asserts, front)
                    ELSE {Outcome(FALSE, spends_map_, outputs_map_)} :
               Iterated(t, at, o)
        /\ last' = IF task.status = "queued" THEN LastOf(t) ELSE last
        /\ UNCHANGED << asserts, front, calls, handled, pending, chain,
                        stable, probe >>

\* transaction_indexer::do_deindex, one loop iteration a step.
DoDeindex(t) ==
    LET task == tasks[t]
        at   == Entered(t)
    IN  /\ alive
        /\ task.kind = "do_deindex"
        /\ Runnable(t)
        /\ \E o \in IF at.phase = "inputs"
                    THEN do_deindex_input(task.tx, at.i, spends_map_,
                                          outputs_map_, asserts)
                    ELSE IF at.phase = "outputs"
                    THEN do_deindex_output(task.tx, at.i, spends_map_,
                                           outputs_map_, asserts)
                    ELSE {Outcome(FALSE, spends_map_, outputs_map_)} :
               Iterated(t, at, o)
        /\ last' = IF task.status = "queued" THEN LastOf(t) ELSE last
        /\ stable' = StillKnown(chain, outputs_map_')
        /\ UNCHANGED << asserts, front, calls, handled, pending, chain,
                        probe >>

\* transaction_indexer::do_query, and the handler it calls: the caller's, or
\* indexer_history_fetched.
DoQuery(t) ==
    LET task == tasks[t]
        inv  == do_query(task.payaddr, spends_map_, outputs_map_)
        r    == indexer_history_fetched(inv.ec, inv.arg2, inv.arg3,
                                        task.history, asserts)
    IN  /\ alive
        /\ task.kind = "do_query"
        /\ Runnable(t)
        /\ IF task.handler = "query_handler"
           THEN /\ handled' = [handled EXCEPT ![task.call] = Append(@, inv)]
                /\ tasks' = [tasks EXCEPT ![t].status = "done"]
                /\ alive' = alive
           ELSE IF r.aborted
           THEN /\ handled' = handled
                /\ tasks' = [tasks EXCEPT ![t].status = "aborted"]
                /\ alive' = FALSE
           ELSE /\ handled' = [handled EXCEPT ![task.call] = @ \o r.fetched]
                /\ tasks' = [tasks EXCEPT ![t].status = "done"]
                /\ alive' = alive
        /\ UNCHANGED << asserts, front, spends_map_, outputs_map_, calls,
                        pending, chain, last, stable, probe >>

\* The address index under its callers: any calls of index, deindex and
\* query, in any order, while the strand works.
Next ==
    \/ \E tx \in PoolTxs : index(tx)
    \/ \E tx \in PoolTxs : deindex(tx)
    \/ \E a \in Addresses : query(a)
    \/ \E t \in 1..Len(tasks) : DoIndex(t)
    \/ \E t \in 1..Len(tasks) : DoDeindex(t)
    \/ \E t \in 1..Len(tasks) : DoQuery(t)

Spec == Init /\ [][Next]_vars

\* The index, the ledger and fetch_history together: transactions enter the
\* index, are confirmed and leave it while histories are fetched.
NextHistory ==
    \/ \E tx \in {Tx1, Tx2} : index(tx)
    \/ \E tx \in {Tx1, Tx2} : deindex(tx)
    \/ \E a \in Addresses : fetch_history(a)
    \/ \E p \in pending : \E ec \in {success, LedgerError} :
           BlockchainHistoryFetched(p, ec)
    \/ \E tx \in PoolTxs : Confirm(tx)
    \/ \E t \in 1..Len(tasks) : DoIndex(t)
    \/ \E t \in 1..Len(tasks) : DoDeindex(t)
    \/ \E t \in 1..Len(tasks) : DoQuery(t)

\* The order of a bucket only orders the rows of a merged history: one
\* library is followed here.
InitHistory ==
    /\ Init
    /\ front = FALSE

SpecHistory == InitHistory /\ [][NextHistory]_vars

\* ------------------------------------- the two callbacks, called directly

\* The longest outputs list and spends list a callback is called with.
MaxInfos == 2

Range(f) == {f[k] : k \in DOMAIN f}

SeqsUpTo(S, n) == UNION {[1..m -> S] : m \in 0..n}

\* Rows the ledger can report: Tx0's output unspent, or spent by Tx1; Tx1's
\* first output.
LedgerRows ==
    {history_row(Point("H0", 0), 100, 500, null_point, max_height),
     history_row(Point("H0", 0), 100, 500, Point("H1", 0), 101),
     history_row(Point("H1", 0), 101, 5, null_point, max_height)}

\* A ledger history has a row per output: no output twice.
LedgerHistories ==
    {h \in SeqsUpTo(LedgerRows, 2) :
        \A j, k \in 1..Len(h) : h[j].output = h[k].output => j = k}

\* Outputs the index can hold: Tx1's first output, Tx2's output.
IndexOutputs ==
    {output_info_type(Point("H1", 0), 5), output_info_type(Point("H2", 0), 250)}

\* Spends the index can hold: Tx1's and Tx2's, one more of the output Tx1
\* spends, and one of an output nobody knows.
IndexSpends ==
    {spend_info_type(Point("H1", 0), Point("H0", 0)),
     spend_info_type(Point("H2", 1), Point("H1", 0)),
     spend_info_type(Point("H4", 0), Point("H0", 0)),
     spend_info_type(Point("H3", 0), Point("H9", 2))}

\* The arguments of a direct call: any status, any ledger history, and any
\* lists the index can answer a query with.
InitHandlers ==
    /\ Constructed
    /\ front = FALSE
    /\ \E ec \in {success} \cup ErrorCodes, a \in Addresses,
          h \in LedgerHistories,
          os \in SeqsUpTo(IndexOutputs, MaxInfos),
          ss \in SeqsUpTo(IndexSpends, MaxInfos) :
           probe = [NoProbe EXCEPT !.ec = ec, !.address = a, !.history = h,
                                   !.outputs = os, !.spends = ss]

\* blockchain_history_fetched(ec, history, indexer, address, handle_fetch),
\* called with the probe's arguments.
CallBlockchainHistoryFetched ==
    LET r == blockchain_history_fetched(probe.ec, probe.history, probe.address)
    IN  /\ probe.applied = "-"
        /\ probe' = [probe EXCEPT !.applied = "blockchain_history_fetched",
                                  !.fetched = r.fetched,
                                  !.queries = r.queries]
        /\ UNCHANGED << asserts, front, alive, spends_map_, outputs_map_,
                        calls, handled, tasks, pending, chain, last, stable >>

\* indexer_history_fetched(ec, outputs, spends, history, handle_fetch),
\* called with the probe's arguments.
CallIndexerHistoryFetched ==
    LET r == indexer_history_fetched(probe.ec, probe.outputs, probe.spends,
                                     probe.history, asserts)
    IN  /\ probe.applied = "-"
        /\ probe' = [probe EXCEPT !.applied = "indexer_history_fetched",
                                  !.aborted = r.aborted,
                                  !.fetched = r.fetched]
        /\ alive' = ~r.aborted
        /\ UNCHANGED << asserts, front, spends_map_, outputs_map_, calls,
                        handled, tasks, pending, chain, last, stable >>

NextHandlers ==
    \/ CallBlockchainHistoryFetched
    \/ CallIndexerHistoryFetched

SpecHandlers == InitHandlers /\ [][NextHandlers]_vars

\* ================================================================= claims

\* The caller's query results: the invocations of the handlers of query calls.
QueryTasksDone ==
    {t \in 1..Len(tasks) : /\ tasks[t].kind = "do_query"
                           /\ tasks[t].handler = "query_handler"
                           /\ tasks[t].status = "done"}

\* The entries indexing tx puts under an address.
ExpectedOutputs(tx, address) ==
    {output_info_type(Point(hash_transaction(tx), k - 1), tx.outputs[k].value) :
        k \in {j \in 1..Len(tx.outputs) :
                  /\ extract(tx.outputs[j].script).ok
                  /\ extract(tx.outputs[j].script).payaddr = address}}

ExpectedSpends(tx, address) ==
    {spend_info_type(Point(hash_transaction(tx), k - 1),
                     tx.inputs[k].previous_output) :
        k \in {j \in 1..Len(tx.inputs) :
                  /\ extract(tx.inputs[j].script).ok
                  /\ extract(tx.inputs[j].script).payaddr = address}}

\* Whether the transaction has an input or an output with an address.
TouchesAddress(tx) ==
    \E a \in Addresses : ExpectedOutputs(tx, a) \cup ExpectedSpends(tx, a) # {}

\* C1: in every reachable state, no point is twice in an address's spends
\* bucket and no point is twice in an address's outputs bucket.
C1_NoPointTwice ==
    \A a \in Addresses :
        /\ \A j, k \in 1..Len(spends_map_[a]) :
               spends_map_[a][j].point = spends_map_[a][k].point => j = k
        /\ \A j, k \in 1..Len(outputs_map_[a]) :
               outputs_map_[a][j].point = outputs_map_[a][k].point => j = k

\* C2: every call whose queued handler the strand has run to its end has had
\* its completion handler called.
C2_CompletionHandlerCalled ==
    \A t \in 1..Len(tasks) :
        tasks[t].status = "done" => Len(handled[tasks[t].call]) >= 1

\* C3: index(tx) of a transaction that is not indexed, followed by
\* deindex(tx), leaves for every address the query result (the set of spends
\* and the set of outputs, with as many entries) that held before index(tx).
C3_RoundTrip ==
    (/\ last.kind = "do_deindex"
     /\ last.round_trip
     /\ tasks[last.task].status = "done")
    => \A a \in Addresses :
           LET now    == do_query(a, spends_map_, outputs_map_)
               before == do_query(a, last.base.spends, last.base.outputs)
           IN  /\ Range(now.arg2) = Range(before.arg2)
               /\ Range(now.arg3) = Range(before.arg3)
               /\ Len(now.arg2) = Len(before.arg2)
               /\ Len(now.arg3) = Len(before.arg3)

\* C3's case: Tx1 was indexed into buckets that held another transaction's
\* entries, then deindexed.
C3_Witness ==
    /\ last.kind = "do_deindex"
    /\ last.round_trip
    /\ last.tx = Tx1
    /\ tasks[last.task].status = "done"
    /\ last.base.spends["A"] # << >>

\* C4: index(tx) of a transaction that is already indexed ends with its
\* handler called once with DuplicateIndex, and with both maps as they were
\* when it started.
C4_DuplicateIndexFails ==
    (/\ last.kind = "do_index"
     /\ last.indexed
     /\ tasks[last.task].status \in {"done", "aborted"})
    => /\ handled[tasks[last.task].call]
              = << Invocation("DuplicateIndex", << >>, << >>) >>
       /\ Maps(spends_map_, outputs_map_) = last.pre

\* C5: deindex(tx) of a transaction with an address that is not indexed ends
\* with its handler called once with MissingIndexEntry, and with both maps
\* as they were when it started.
C5_MissingDeindexFails ==
    (/\ last.kind = "do_deindex"
     /\ TouchesAddress(last.tx)
     /\ ~last.indexed
     /\ tasks[last.task].status \in {"done", "aborted"})
    => /\ handled[tasks[last.task].call]
              = << Invocation("MissingIndexEntry", << >>, << >>) >>
       /\ Maps(spends_map_, outputs_map_) = last.pre

\* The transactions of the do_index handlers queued before task t, when the
\* handlers queued before t are only do_index of distinct transactions and
\* do_query; otherwise no set at all.
OnlyIndexedBefore(t) ==
    LET before == {u \in 1..(t - 1) : tasks[u].kind # "do_query"}
    IN  IF /\ \A u \in before : tasks[u].kind = "do_index"
           /\ \A u, v \in before : tasks[u].tx = tasks[v].tx => u = v
        THEN {{tasks[u].tx : u \in before}}
        ELSE {}

\* C6: a query that follows, on an index that was empty, only index calls of
\* distinct transactions returns exactly the outputs and exactly the spends
\* those transactions have under the address, each once.
C6_QueryReturnsExactly ==
    \A t \in QueryTasksDone :
        \A txs \in OnlyIndexedBefore(t) :
            LET inv     == handled[tasks[t].call][1]
                outputs == UNION {ExpectedOutputs(tx, tasks[t].payaddr) : tx \in txs}
                spends  == UNION {ExpectedSpends(tx, tasks[t].payaddr) : tx \in txs}
            IN  /\ Range(inv.arg2) = outputs
                /\ Len(inv.arg2) = Cardinality(outputs)
                /\ Range(inv.arg3) = spends
                /\ Len(inv.arg3) = Cardinality(spends)

\* C6's case: address A was queried after Tx1 and Tx2 were indexed, while
\* Tx2 also has an output under B.
C6_Witness ==
    \E t \in QueryTasksDone :
        /\ tasks[t].payaddr = "A"
        /\ OnlyIndexedBefore(t) = {{Tx1, Tx2}}
        /\ Len(handled[tasks[t].call][1].arg2) = 2
        /\ Len(handled[tasks[t].call][1].arg3) = 2


\* The points of a query result's list.
PointsOf(list) == {list[k].point : k \in 1..Len(list)}

\* C7: handlers of the strand never run at the same time, and a query result
\* never holds only a part of the entries a transaction has under the
\* queried address.
C7_NoInterleaving ==
    /\ Cardinality(Running) <= 1
    /\ \A t \in QueryTasksDone : \A tx \in PoolTxs :
           LET inv     == handled[tasks[t].call][1]
               outputs == PointsOf(inv.arg2) \cap
                              {e.point : e \in ExpectedOutputs(tx, tasks[t].payaddr)}
               spends  == PointsOf(inv.arg3) \cap
                              {e.point : e \in ExpectedSpends(tx, tasks[t].payaddr)}
           IN  /\ outputs \in {{}, {e.point : e \in ExpectedOutputs(tx, tasks[t].payaddr)}}
               /\ spends \in {{}, {e.point : e \in ExpectedSpends(tx, tasks[t].payaddr)}}

\* C7's case: do_index of Tx1 is between its two outputs under A while a
\* query of A submitted meanwhile waits on the strand.
C7_Witness ==
    \E t, u \in 1..Len(tasks) :
        /\ tasks[t].kind = "do_index"
        /\ tasks[t].tx = Tx1
        /\ tasks[t].status = "running"
        /\ tasks[t].phase = "outputs"
        /\ tasks[t].i = 2
        /\ tasks[u].kind = "do_query"
        /\ tasks[u].payaddr = "A"
        /\ tasks[u].status = "queued"

\* The handlers queued before task t that work on tx, oldest first.
WorkBefore(t, tx) ==
    SelectSeq([u \in 1..(t - 1) |-> tasks[u]],
              LAMBDA task : task.kind # "do_query" /\ task.tx = tx)

\* C8: a handler starts only when every handler queued before it has ended;
\* a query queued after index(tx) alone sees every entry of tx under the
\* address, and a query queued after index(tx) and then deindex(tx) sees
\* none.
C8_SubmissionOrder ==
    /\ \A t, u \in 1..Len(tasks) :
           (t < u /\ tasks[u].status # "queued") => tasks[t].status = "done"
    /\ \A t \in QueryTasksDone : \A tx \in PoolTxs :
           LET inv  == handled[tasks[t].call][1]
               work == WorkBefore(t, tx)
               mine == {e.point : e \in ExpectedOutputs(tx, tasks[t].payaddr)}
                           \cup {e.point : e \in ExpectedSpends(tx, tasks[t].payaddr)}
               seen == PointsOf(inv.arg2) \cup PointsOf(inv.arg3)
           IN  /\ (Len(work) = 1 /\ work[1].kind = "do_index")
                      => mine \subseteq seen
               /\ (/\ Len(work) = 2
                   /\ work[1].kind = "do_index"
                   /\ work[2].kind = "do_deindex")
                      => mine \cap seen = {}

\* C8's case: a query of A queued after index(Tx1) and deindex(Tx1) has
\* returned.
C8_Witness ==
    \E t \in QueryTasksDone :
        /\ tasks[t].payaddr = "A"
        /\ Len(WorkBefore(t, Tx1)) = 2
        /\ WorkBefore(t, Tx1)[1].kind = "do_index"
        /\ WorkBefore(t, Tx1)[2].kind = "do_deindex"

\* C9: called with an error, blockchain_history_fetched calls the handler
\* once with that error and an empty list and queries nothing; called with
\* an error, indexer_history_fetched calls the handler once with that error
\* and an empty list, whatever there was to merge.
C9_ShortCircuit ==
    /\ (probe.applied = "blockchain_history_fetched" /\ probe.ec # success)
           => /\ probe.fetched = << Invocation(probe.ec, << >>, << >>) >>
              /\ probe.queries = << >>
    /\ (probe.applied = "indexer_history_fetched" /\ probe.ec # success)
           => /\ probe.fetched = << Invocation(probe.ec, << >>, << >>) >>
              /\ ~probe.aborted

\* C9's case: indexer_history_fetched was called with an error, a history,
\* an output and a spend of an output nobody knows, in the build whose
\* assertions would stop such a merge.
C9_Witness ==
    /\ probe.applied = "indexer_history_fetched"
    /\ probe.ec = "not_found"
    /\ asserts
    /\ probe.history # << >>
    /\ probe.outputs # << >>
    /\ \E k \in 1..Len(probe.spends) :
           probe.spends[k].previous_output = Point("H9", 2)

\* C10: the list a successful fetch_history delivers has a row for every
\* output paying the address that was in the ledger or in the index at
\* every moment since the call started.
C10_AllKnownOutputs ==
    \A c \in 1..Len(calls) :
        (/\ calls[c].op = "fetch_history"
         /\ Len(handled[c]) = 1
         /\ handled[c][1].ec = success)
        => \A o \in stable[c] :
               \E k \in 1..Len(handled[c][1].arg2) :
                   handled[c][1].arg2[k].output = o

\* indexer_history_fetched was called directly with a success status: the
\* merge ran on the probe's history, outputs and spends.
MergeCalled ==
    /\ probe.applied = "indexer_history_fetched"
    /\ probe.ec = success

\* The output points of a list of rows.
RowOutputs(history) == {history[r].output : r \in 1..Len(history)}

\* The probe's spends whose previous_output is the output of no row the
\* merge accumulates: no row of the ledger's history, no output of the index.
UnmatchedSpends ==
    {k \in 1..Len(probe.spends) :
        probe.spends[k].previous_output
            \notin RowOutputs(probe.history) \cup PointsOf(probe.outputs)}

\* C11: a merge with a spend whose previous_output is the output of no
\* accumulated row calls the handler once, with MergeInconsistency and an
\* empty history.
C11_UnmatchedSpendFails ==
    (MergeCalled /\ UnmatchedSpends # {})
    => probe.fetched = << Invocation("MergeInconsistency", << >>, << >>) >>

\* The row the merge appends for the k-th unconfirmed output.
UnconfirmedRow(k) ==
    history_row(probe.outputs[k].point, 0, probe.outputs[k].value,
                null_point, max_height)

\* The accumulated list: the ledger's rows, then a row per unconfirmed output.
Accumulated ==
    probe.history \o [k \in 1..Len(probe.outputs) |-> UnconfirmedRow(k)]

\* The merge delivered a result: the handler was called once, with success.
MergeDelivered ==
    /\ MergeCalled
    /\ Len(probe.fetched) = 1
    /\ probe.fetched[1].ec = success

\* The list a merge delivered.
Merged == probe.fetched[1].arg2

\* C12: in a delivered merge result, for every unconfirmed spend and every
\* unspent accumulated row (from the ledger or from an unconfirmed output)
\* whose output is the spend's previous_output, the result has that row with
\* spend = the spend's point, spend_height = 0, and output, output_height
\* and value unchanged.
C12_SpendAttached ==
    MergeDelivered
    => \A k \in 1..Len(probe.spends) :
           \A r \in 1..Len(Accumulated) :
               (/\ Accumulated[r].output = probe.spends[k].previous_output
                /\ Accumulated[r].spend = null_point
                /\ Accumulated[r].spend_height = max_height)
               => \E q \in 1..Len(Merged) :
                      Merged[q] = [Accumulated[r] EXCEPT
                                      !.spend = probe.spends[k].point,
                                      !.spend_height = 0]

\* C13: a delivered merge result has, after the ledger's rows, exactly one
\* row per unconfirmed output, in the outputs' order: output = the output's
\* point, output_height = 0, value = the output's value, and spend = the
\* sentinel with spend_height = max_height unless an unconfirmed spend of
\* the call names the output, which then is the row's spend at height 0.
C13_OutputRows ==
    MergeDelivered
    => /\ Len(Merged) = Len(probe.history) + Len(probe.outputs)
       /\ \A k \in 1..Len(probe.outputs) :
              LET row == Merged[Len(probe.history) + k]
              IN  /\ row.output = probe.outputs[k].point
                  /\ row.output_height = 0
                  /\ row.value = probe.outputs[k].value
                  /\ \/ /\ row.spend = null_point
                        /\ row.spend_height = max_height
                     \/ /\ row.spend_height = 0
                        /\ \E s \in 1..Len(probe.spends) :
                               /\ probe.spends[s].previous_output = row.output
                               /\ probe.spends[s].point = row.spend

\* C13's case: the ledger reported a row, and the index two outputs, one of
\* them consumed by an unconfirmed spend and the other not.
C13_Witness ==
    /\ MergeDelivered
    /\ Len(probe.history) = 1
    /\ PointsOf(probe.outputs) = {Point("H1", 0), Point("H2", 0)}
    /\ Len(probe.spends) = 1
    /\ Merged[2].spend = Point("H2", 1)
    /\ Merged[3] = history_row(Point("H2", 0), 0, 250, null_point, max_height)

\* C14: the handler of a query that follows, on an index that was empty,
\* only index calls of distinct transactions is called with the status, then
\* (second argument) the spends those transactions have under the address,
\* then (third argument) their outputs under the address.
C14_DeclaredPositions ==
    \A t \in QueryTasksDone :
        \A txs \in OnlyIndexedBefore(t) :
            LET inv == handled[tasks[t].call][1]
            IN  /\ inv.ec = success
                /\ Range(inv.arg2)
                       = UNION {ExpectedSpends(tx, tasks[t].payaddr) : tx \in txs}
                /\ Range(inv.arg3)
                       = UNION {ExpectedOutputs(tx, tasks[t].payaddr) : tx \in txs}

\* The first of the probe's spends that names an output; 0 when none does.
FirstSpendOf(output) ==
    LET ks == {k \in 1..Len(probe.spends) :
                  probe.spends[k].previous_output = output}
    IN  IF ks = {} THEN 0 ELSE Min(ks)

\* C15: in a delivered merge result, every row that the ledger reported
\* spent keeps its spend and spend_height, and a row that an unconfirmed
\* spend marked carries the first unconfirmed spend of its output: no later
\* spend replaced it.
C15_SpendWriteOnce ==
    MergeDelivered
    => /\ \A r \in 1..Len(probe.history) :
              probe.history[r].spend_height # max_height
              => /\ Merged[r].spend = probe.history[r].spend
                 /\ Merged[r].spend_height = probe.history[r].spend_height
       /\ \A q \in 1..Len(Merged) :
              (Merged[q].spend_height = 0
               /\ FirstSpendOf(Merged[q].output) # 0)
              => Merged[q].spend
                     = probe.spends[FirstSpendOf(Merged[q].output)].point

\* The probe's unconfirmed outputs whose point is the output of a row the
\* ledger reported.
CollidingOutputs ==
    {k \in 1..Len(probe.outputs) :
        probe.outputs[k].point \in RowOutputs(probe.history)}

\* C16: a merge with an unconfirmed output whose point is the output of a
\* confirmed row calls the handler once, with MergeInconsistency and an
\* empty history; and no delivered merge result has two rows with the same
\* output.
C16_CollisionFails ==
    /\ (MergeCalled /\ CollidingOutputs # {})
       => probe.fetched = << Invocation("MergeInconsistency", << >>, << >>) >>
    /\ MergeDelivered
       => \A q, r \in 1..Len(Merged) :
              Merged[q].output = Merged[r].output => q = r

\* The entries of a bucket that belong to tx, and the entries that do not,
\* each in the bucket's order.
EntriesOf(bucket, tx) ==
    LET Own(e) == e.point.hash = hash_transaction(tx)
    IN  SelectSeq(bucket, Own)

EntriesOfOthers(bucket, tx) ==
    LET Foreign(e) == e.point.hash # hash_transaction(tx)
    IN  SelectSeq(bucket, Foreign)

\* Every entry index(tx) inserts is in the maps exactly once.
IndexedOnce(tx, maps) ==
    \A a \in Addresses :
        /\ Range(EntriesOf(maps.spends[a], tx)) = ExpectedSpends(tx, a)
        /\ Len(EntriesOf(maps.spends[a], tx))
               = Cardinality(ExpectedSpends(tx, a))
        /\ Range(EntriesOf(maps.outputs[a], tx)) = ExpectedOutputs(tx, a)
        /\ Len(EntriesOf(maps.outputs[a], tx))
               = Cardinality(ExpectedOutputs(tx, a))

\* C17: from the start of a do_index or do_deindex of tx on, every bucket
\* holds the entries of the other transactions it held when the handler
\* started, in the same order; and a do_deindex of an indexed tx that has
\* run to its end leaves no entry of tx.
C17_OnlyOwnEntries ==
    last.task # 0
    => /\ \A a \in Addresses :
              /\ EntriesOfOthers(spends_map_[a], last.tx)
                     = EntriesOfOthers(last.pre.spends[a], last.tx)
              /\ EntriesOfOthers(outputs_map_[a], last.tx)
                     = EntriesOfOthers(last.pre.outputs[a], last.tx)
       /\ (/\ last.kind = "do_deindex"
           /\ tasks[last.task].status = "done"
           /\ IndexedOnce(last.tx, last.pre))
          => ~IsIndexed(last.tx, spends_map_, outputs_map_)

\* C17's case: Tx1 was deindexed from a spends bucket of A that also held
\* Tx2's spend, which is what the bucket holds now.
C17_Witness ==
    /\ last.kind = "do_deindex"
    /\ last.tx = Tx1
    /\ tasks[last.task].status = "done"
    /\ IndexedOnce(Tx1, last.pre)
    /\ Len(last.pre.spends["A"]) = 2
    /\ spends_map_["A"] = << spend_info_type(Point("H2", 1), Point("H1", 0)) >>

\* C18: a do_index of a transaction that was not indexed, run to its end,
\* leaves for every address exactly one entry per input and per output of
\* the transaction that has that address, its point's index the position in
\* the full transaction; and a do_index or do_deindex of a transaction
\* without any address runs to its end with both maps as they were.
C18_SkipsWithoutAddress ==
    /\ (/\ last.kind = "do_index"
        /\ ~last.indexed
        /\ tasks[last.task].status = "done")
       => IndexedOnce(last.tx, Maps(spends_map_, outputs_map_))
    /\ (last.task # 0 /\ ~TouchesAddress(last.tx))
       => /\ tasks[last.task].status = "done"
          /\ Maps(spends_map_, outputs_map_) = last.pre

\* C18's case: Tx1, whose second output has no address, was indexed: its
\* third output is under A at position 2, and nothing is at position 1.
C18_Witness ==
    /\ last.kind = "do_index"
    /\ last.tx = Tx1
    /\ ~last.indexed
    /\ tasks[last.task].status = "done"
    /\ Point("H1", 2) \in PointsOf(outputs_map_["A"])
    /\ \A a \in Addresses : Point("H1", 1) \notin PointsOf(outputs_map_[a])

\* C19: a delivered merge result has as many rows as the ledger's history
\* and the unconfirmed outputs together; its first rows are the ledger's, in
\* their order, with output, output_height and value unchanged; and every
\* accumulated row whose output no unconfirmed spend names is delivered
\* with all five fields unchanged.
C19_MergeFrame ==
    MergeDelivered
    => /\ Len(Merged) = Len(probe.history) + Len(probe.outputs)
       /\ \A r \in 1..Len(probe.history) :
              /\ Merged[r].output = probe.history[r].output
              /\ Merged[r].output_height = probe.history[r].output_height
              /\ Merged[r].value = probe.history[r].value
       /\ \A q \in 1..Len(Accumulated) :
              FirstSpendOf(Accumulated[q].output) = 0
              => Merged[q] = Accumulated[q]

\* C19's case: the ledger reported two rows, one already spent, the index
\* an output and a spend of the unspent row.
C19_Witness ==
    /\ MergeDelivered
    /\ Len(probe.history) = 2
    /\ probe.history[1].spend_height = 101
    /\ Len(probe.outputs) >= 1
    /\ Len(probe.spends) = 1
    /\ Merged[2].spend_height = 0
    /\ Merged[1] = probe.history[1]

\* A fetch_history call has run its course: the ledger has called back, and
\* the do_query queued for the call, if any, has been run by the strand.
FetchFinished(c) ==
    /\ calls[c].op = "fetch_history"
    /\ \A p \in pending : p.call # c
    /\ \A t \in 1..Len(tasks) :
           tasks[t].call = c => tasks[t].status \in {"done", "aborted"}

\* C20: the handler of a fetch_history call is never called twice, each
\* time with an error and an empty list or with success; and once the call
\* has run its course the handler has been called exactly once.
C20_CallbackExactlyOnce ==
    \A c \in 1..Len(calls) :
        calls[c].op = "fetch_history"
        => /\ Len(handled[c]) <= 1
           /\ \A k \in 1..Len(handled[c]) :
                  handled[c][k].ec # success => handled[c][k].arg2 = << >>
           /\ FetchFinished(c) => Len(handled[c]) = 1

====
